---------------------------- MODULE Spec2Model ----------------------------
(***************************************************************************)
(* Model of scripts/generate-icons.py: resize_image (one icon from the     *)
(* source logo) and main (the loop over ICON_SIZES, the success counter    *)
(* and the exit status).                                                   *)
(*                                                                         *)
(* Spec        runs main, up to MaxRuns times in succession, on a file     *)
(*             system holding the source logo and the output files.        *)
(* SpecResize  applies resize_image once to inputs drawn from bounded sets.*)
(*                                                                         *)
(* Console output (print) is not part of the state and is taken to work.   *)
(***************************************************************************)
EXTENDS Integers, Sequences, FiniteSets, TLC

VARIABLES
    fs,             \* the files of assets/: path -> file record
    dirExists,      \* whether the assets directory exists
    removesCreated, \* whether a failed Image.save removes a file it created
    tieUp,          \* whether thumbnail's float comparison rounds an exact tie up
    outFail,        \* per output path: the step of resize_image that fails there
    pc,             \* position of main ("start".."done") or of the single call
    idx,            \* main: index of the next ICON_SIZES entry (1-based)
    success_count,  \* main: success_count
    exit_code,      \* exit status of the process (read when pc = "done")
    arg,            \* arguments of the latest resize_image call
    res,            \* result of the latest resize_image call
    calls,          \* history: the resize_image calls of the current run
    run,            \* history: number of the current run
    fsStart,        \* history: fs when the current run started
    prev            \* history: outcome of the previous run

vars == <<fs, dirExists, removesCreated, tieUp, outFail, pc, idx, success_count,
          exit_code, arg, res, calls, run, fsStart, prev>>

-----------------------------------------------------------------------------
(* Bounds of the model *)

MaxRuns == 2   \* successive runs of the generator
MaxDim == 5    \* source width and height range over 1..MaxDim (plus Examples)
MaxSize == 4   \* target sizes range over 1..MaxSize (plus the table's sizes)

-----------------------------------------------------------------------------
(* The static table and the paths *)

ICON_SIZES ==
    << [filename |-> "icon.png",          size |-> 1024],
       [filename |-> "adaptive-icon.png", size |-> 1024],
       [filename |-> "splash-icon.png",   size |-> 1242],
       [filename |-> "favicon.png",       size |-> 48] >>

source_image == "logo-source.jpeg"

OutputPaths == { ICON_SIZES[k].filename : k \in 1..Len(ICON_SIZES) }

Paths == OutputPaths \cup {source_image}

\* Variant of MaintainAspectOf testing for the substring 'icon'.
MaintainAspectIfIconInName(filename) ==
    filename \in {"icon.png", "adaptive-icon.png", "splash-icon.png",
                  "favicon.png"}

MaintainAspectOf(filename) == filename \in {"icon.png", "adaptive-icon.png"}

SizeOf(filename) ==
    ICON_SIZES[CHOOSE k \in 1..Len(ICON_SIZES) :
                  ICON_SIZES[k].filename = filename].size

-----------------------------------------------------------------------------
(* Files and bitmaps.  A bitmap is w x h pixels of a mode; its pixels are  *)
(* described by the picture they show (pic) and the region it occupies:    *)
(* cw x ch pixels at offset (px, py), the rest being transparent padding.  *)

Absent == [kind |-> "absent", w |-> 0, h |-> 0, mode |-> "", cw |-> 0,
           ch |-> 0, px |-> 0, py |-> 0, pic |-> ""]

Corrupt == [Absent EXCEPT !.kind = "corrupt"]

Partial == [Absent EXCEPT !.kind = "partial"]

Picture(W, H, mode, pic) ==
    [kind |-> "image", w |-> W, h |-> H, mode |-> mode, cw |-> W, ch |-> H,
     px |-> 0, py |-> 0, pic |-> pic]

Abs(n) == IF n < 0 THEN 0 - n ELSE n

Max(a, b) == IF a >= b THEN a ELSE b

CeilDiv(a, b) == (a + b - 1) \div b


-----------------------------------------------------------------------------
(* resize_image *)

Steps == {"none", "open", "convert", "thumbnail", "new", "paste", "resize",
          "save_open", "save_write"}

\* Variant of ThumbnailSize that fits the width only.
ThumbnailSizeWidthOnly(W, H, S, up) ==
    IF S >= W THEN <<W, H>> ELSE <<S, Max((S * H) \div W, 1)>>

\* Image.thumbnail's target size for a W x H bitmap and the box (S, S):
\* unchanged when the bitmap fits; otherwise the longer side becomes S and
\* the other the floor or the ceiling of its exact value, whichever keeps
\* the ratio closer to W/H, and at least 1.
\* The library compares |W/H - n/S| resp. |W/H - S/n| in floating point; the
\* comparisons are cross-multiplied here to stay in the integers, and on an
\* exact tie, where rounding decides the library's comparison, up tells
\* whether the ceiling is taken.
ThumbnailSize(W, H, S, up) ==
    IF S >= W /\ S >= H THEN <<W, H>>
    ELSE IF W <= H
    THEN LET lo == (S * W) \div H
             hi == CeilDiv(S * W, H)
             klo == Abs(W * S - lo * H)
             khi == Abs(W * S - hi * H)
             pick == IF klo < khi \/ (klo = khi /\ ~up) THEN lo ELSE hi
         IN  <<Max(pick, 1), S>>
    ELSE LET lo == (S * H) \div W
             hi == CeilDiv(S * H, W)
             klo == Abs(W * lo - S * H) * hi
             khi == Abs(W * hi - S * H) * lo
             pick == IF lo = 0 \/ klo < khi \/ (klo = khi /\ ~up)
                     THEN lo ELSE hi
         IN  <<S, Max(pick, 1)>>

\* img.thumbnail((size, size), LANCZOS): rescales img itself.
Thumbnail(img, size, up) ==
    LET t == ThumbnailSize(img.w, img.h, size, up)
    IN  [img EXCEPT !.w = t[1], !.h = t[2], !.cw = t[1], !.ch = t[2]]

\* Variant of Stretch that keeps the aspect ratio, as thumbnail does.
StretchKeepsAspect(img, size) ==
    [img EXCEPT !.w = ThumbnailSizeWidthOnly(img.w, img.h, size, FALSE)[1],
                !.h = ThumbnailSizeWidthOnly(img.w, img.h, size, FALSE)[2],
                !.cw = ThumbnailSizeWidthOnly(img.w, img.h, size, FALSE)[1],
                !.ch = ThumbnailSizeWidthOnly(img.w, img.h, size, FALSE)[2]]

\* img.resize((size, size), LANCZOS): a new bitmap, img is left alone.
Stretch(img, size) ==
    [img EXCEPT !.w = size, !.h = size, !.cw = size, !.ch = size]

\* paste_x = (size - img.width) // 2, likewise paste_y
PasteOffset(size, extent) == (size - extent) \div 2

\* Image.new('RGBA', (size, size), transparent) with img pasted centred.
Composite(img, size) ==
    [kind |-> "image", w |-> size, h |-> size, mode |-> "RGBA",
     cw |-> img.w, ch |-> img.h,
     px |-> PasteOffset(size, img.w), py |-> PasteOffset(size, img.h),
     pic |-> img.pic]

\* Variant of Save in which a failure while writing leaves the whole file.
SaveKeepsOutput(old, img, fail, rc) ==
    IF fail = "save_open" THEN old ELSE img

\* What img.save(output_path, 'PNG') leaves at output_path, where old is the
\* file that was there: a failure to open the path leaves old; a failure
\* while writing leaves a truncated file, or nothing when the file was
\* newly created and the library removes it; otherwise the encoded bitmap.
Save(old, img, fail, rc) ==
    IF fail = "save_open" THEN old
    ELSE IF fail = "save_write"
    THEN IF old.kind = "absent" /\ rc THEN Absent ELSE Partial
    ELSE img

\* Variant of ExceptHandler that catches I/O errors only (except IOError).
ExceptIOErrorOnly(step, out, d0, d1) ==
    [ret |-> FALSE, raised |-> step \notin {"open", "save_open", "save_write"},
     out |-> out, decoded0 |-> d0, decoded |-> d1, content |-> Absent]

\* except Exception: report and return False.  out is the file now at the
\* output path, d0 the bitmap as decoded, d1 that same object afterwards.
ExceptHandler(step, out, d0, d1) ==
    [ret |-> FALSE, raised |-> FALSE, out |-> out, decoded0 |-> d0,
     decoded |-> d1, content |-> Absent]

\* resize_image(input_path, output_path, size, maintain_aspect), where src
\* is the file at input_path, old the file at output_path, fail the step
\* at which an error occurs (if that step is executed) and rc the library's
\* policy for files a failed save created, up its rounding of ties.
resize_image(src, old, size, maintain_aspect, fail, rc, up) ==
    IF src.kind # "image" \/ fail = "open"
    THEN ExceptHandler("open", old, Absent, Absent)
    ELSE
    LET d0 == src
        converts == d0.mode # "RGBA"
    IN
    IF converts /\ fail = "convert"
    THEN ExceptHandler("convert", old, d0, d0)
    ELSE
    LET img == IF converts THEN [d0 EXCEPT !.mode = "RGBA"] ELSE d0
    IN
    IF maintain_aspect /\ fail = "thumbnail"
    THEN ExceptHandler("thumbnail", old, d0, d0)
    ELSE IF ~maintain_aspect /\ fail = "resize"
    THEN ExceptHandler("resize", old, d0, d0)
    ELSE
    LET scaled == IF maintain_aspect THEN Thumbnail(img, size, up)
                  ELSE Stretch(img, size)
        \* thumbnail works in place: without a conversion, img is the
        \* decoded bitmap itself
        d1 == IF maintain_aspect /\ ~converts THEN scaled ELSE d0
    IN
    IF maintain_aspect /\ fail \in {"new", "paste"}
    THEN ExceptHandler(fail, old, d0, d1)
    ELSE
    LET final == IF maintain_aspect THEN Composite(scaled, size) ELSE scaled
    IN
    IF fail \in {"save_open", "save_write"}
    THEN ExceptHandler(fail, Save(old, final, fail, rc), d0, d1)
    ELSE [ret |-> TRUE, raised |-> FALSE, out |-> Save(old, final, fail, rc),
          decoded0 |-> d0, decoded |-> d1, content |-> scaled]

-----------------------------------------------------------------------------
(* The process: main *)

NoArg == [input_path |-> "", output_path |-> "", size |-> 0,
          maintain_aspect |-> FALSE, fail |-> "none"]

NoRes == [ret |-> FALSE, raised |-> FALSE, out |-> Absent,
          decoded0 |-> Absent, decoded |-> Absent, content |-> Absent]

\* Variant of Call that refuses to replace an existing output.
CallSkipsExisting(a) ==
    /\ res' = IF fs[a.output_path].kind = "image"
              THEN [NoRes EXCEPT !.out = fs[a.output_path]]
              ELSE resize_image(fs[a.input_path], fs[a.output_path], a.size,
                                a.maintain_aspect, a.fail, removesCreated, tieUp)
    /\ fs' = [fs EXCEPT ![a.output_path] = res'.out]
    /\ arg' = a
    /\ calls' = Append(calls, [filename |-> a.output_path, size |-> a.size,
                               maintain_aspect |-> a.maintain_aspect,
                               ret |-> res'.ret])

\* One call resize_image(...) with arguments a, on the files as they are.
Call(a) ==
    /\ res' = resize_image(fs[a.input_path], fs[a.output_path], a.size,
                           a.maintain_aspect, a.fail, removesCreated, tieUp)
    /\ fs' = [fs EXCEPT ![a.output_path] = res'.out]
    /\ arg' = a
    /\ calls' = Append(calls, [filename |-> a.output_path, size |-> a.size,
                               maintain_aspect |-> a.maintain_aspect,
                               ret |-> res'.ret])

\* Variant of CheckSource that runs after the directory has been made.
CheckSourceAfterMakeDirs ==
    /\ pc = "start"
    /\ dirExists' = TRUE
    /\ IF fs[source_image].kind = "absent"
       THEN pc' = "done" /\ exit_code' = 1
       ELSE pc' = "makedirs" /\ exit_code' = exit_code
    /\ UNCHANGED <<fs, removesCreated, tieUp, outFail, idx, success_count,
                   arg, res, calls, run, fsStart, prev>>

\* if not os.path.exists(source_image): print error; sys.exit(1)
CheckSource ==
    /\ pc = "start"
    /\ IF fs[source_image].kind = "absent"
       THEN pc' = "done" /\ exit_code' = 1
       ELSE pc' = "makedirs" /\ exit_code' = exit_code
    /\ UNCHANGED <<fs, dirExists, removesCreated, tieUp, outFail, idx, success_count,
                   arg, res, calls, run, fsStart, prev>>

\* os.makedirs(assets_dir, exist_ok=True); success_count = 0
MakeDirs ==
    /\ pc = "makedirs"
    /\ dirExists' = TRUE
    /\ success_count' = 0
    /\ idx' = 1
    /\ pc' = "loop"
    /\ UNCHANGED <<fs, removesCreated, tieUp, outFail, exit_code, arg, res, calls,
                   run, fsStart, prev>>

\* Variant of LoopIter that counts every call, whatever it returned.
LoopIterCountsEveryCall ==
    /\ pc = "loop"
    /\ idx <= Len(ICON_SIZES)
    /\ LET e == ICON_SIZES[idx]
       IN  Call([input_path |-> source_image, output_path |-> e.filename,
                 size |-> e.size,
                 maintain_aspect |-> MaintainAspectOf(e.filename),
                 fail |-> outFail[e.filename]])
    /\ success_count' = success_count + 1
    /\ idx' = idx + 1
    /\ UNCHANGED <<dirExists, removesCreated, tieUp, outFail, pc, exit_code, run,
                   fsStart, prev>>

\* One iteration of: for filename, size in ICON_SIZES.items(): ...
LoopIter ==
    /\ pc = "loop"
    /\ idx <= Len(ICON_SIZES)
    /\ LET e == ICON_SIZES[idx]
       IN  Call([input_path |-> source_image, output_path |-> e.filename,
                 size |-> e.size,
                 maintain_aspect |-> MaintainAspectOf(e.filename),
                 fail |-> outFail[e.filename]])
    /\ success_count' = IF res'.ret THEN success_count + 1 ELSE success_count
    /\ idx' = idx + 1
    /\ UNCHANGED <<dirExists, removesCreated, tieUp, outFail, pc, exit_code, run,
                   fsStart, prev>>

\* Variant of Summary that fails only when no icon was generated.
SummaryFailsOnlyIfNone ==
    /\ pc = "loop"
    /\ idx > Len(ICON_SIZES)
    /\ exit_code' = IF success_count > 0 THEN 0 ELSE 1
    /\ pc' = "done"
    /\ UNCHANGED <<fs, dirExists, removesCreated, tieUp, outFail, idx, success_count,
                   arg, res, calls, run, fsStart, prev>>

\* After the loop: the summary, then sys.exit(1) unless every icon succeeded.
Summary ==
    /\ pc = "loop"
    /\ idx > Len(ICON_SIZES)
    /\ exit_code' = IF success_count = Len(ICON_SIZES) THEN 0 ELSE 1
    /\ pc' = "done"
    /\ UNCHANGED <<fs, dirExists, removesCreated, tieUp, outFail, idx, success_count,
                   arg, res, calls, run, fsStart, prev>>

\* The script is started again on the files the previous run left.
Rerun ==
    /\ pc = "done"
    /\ run < MaxRuns
    /\ run' = run + 1
    /\ prev' = [fs |-> fs, success_count |-> success_count,
                exit_code |-> exit_code, calls |-> calls]
    /\ fsStart' = fs
    /\ pc' = "start"
    /\ idx' = 1
    /\ success_count' = 0
    /\ exit_code' = 0
    /\ calls' = <<>>
    /\ arg' = NoArg
    /\ res' = NoRes
    /\ UNCHANGED <<fs, dirExists, removesCreated, tieUp, outFail>>

\* Source logos of the runs: absent, undecodable, or a picture (wide, tall,
\* smaller than every target but the favicon, and one whose scaled width
\* at 1024 is an exact tie between 1 and 2).
MainDims == {<<2000, 1000>>, <<1000, 2000>>, <<40, 30>>, <<3, 2048>>}

Modes == {"RGB", "RGBA", "L"}

SourceFiles ==
    {Absent, Corrupt} \cup
    { Picture(d[1], d[2], m, "logo") : d \in MainDims, m \in {"RGB", "RGBA"} }

\* An output of the right size left by an earlier generation.
StaleIcon(filename) ==
    [kind |-> "image", w |-> SizeOf(filename), h |-> SizeOf(filename),
     mode |-> "RGBA", cw |-> SizeOf(filename), ch |-> SizeOf(filename),
     px |-> 0, py |-> 0, pic |-> "old"]

Init ==
    /\ \E s \in SourceFiles, stale \in SUBSET OutputPaths :
          fs = [p \in Paths |-> IF p = source_image THEN s
                                ELSE IF p \in stale THEN StaleIcon(p)
                                ELSE Absent]
    /\ dirExists \in BOOLEAN
    /\ (\E p \in Paths : fs[p].kind # "absent") => dirExists
    /\ removesCreated \in BOOLEAN
    /\ tieUp \in BOOLEAN
    /\ outFail \in [OutputPaths -> {"none", "save_open", "save_write"}]
    /\ pc = "start"
    /\ idx = 1
    /\ success_count = 0
    /\ exit_code = 0
    /\ arg = NoArg
    /\ res = NoRes
    /\ calls = <<>>
    /\ run = 1
    /\ fsStart = fs
    /\ prev = [fs |-> fs, success_count |-> 0, exit_code |-> 0,
               calls |-> <<>>]

Next == CheckSource \/ MakeDirs \/ LoopIter \/ Summary \/ Rerun

Spec == Init /\ [][Next]_vars

-----------------------------------------------------------------------------
(* resize_image alone, on inputs drawn from bounded sets *)

Examples == {<<2000, 1000>>, <<1000, 2000>>}

Dims == ((1..MaxDim) \X (1..MaxDim)) \cup Examples

Sizes == (1..MaxSize) \cup { ICON_SIZES[k].size : k \in 1..Len(ICON_SIZES) }

ResizeSources ==
    {Absent, Corrupt} \cup { Picture(d[1], d[2], m, "logo") : d \in Dims, m \in Modes }

InitResize ==
    /\ \E s \in ResizeSources, out \in OutputPaths, size \in Sizes,
          m \in BOOLEAN, f \in Steps :
          /\ \E old \in {Absent, Partial, StaleIcon(out)} :
                fs = [p \in Paths |-> IF p = source_image THEN s
                                      ELSE IF p = out THEN old ELSE Absent]
          /\ arg = [input_path |-> source_image, output_path |-> out,
                    size |-> size, maintain_aspect |-> m, fail |-> f]
    /\ dirExists = TRUE
    /\ removesCreated \in BOOLEAN
    /\ tieUp \in BOOLEAN
    /\ outFail = [p \in OutputPaths |-> "none"]
    /\ pc = "call"
    /\ idx = 1
    /\ success_count = 0
    /\ exit_code = 0
    /\ res = NoRes
    /\ calls = <<>>
    /\ run = 1
    /\ fsStart = fs
    /\ prev = [fs |-> fs, success_count |-> 0, exit_code |-> 0,
               calls |-> <<>>]

\* The call resize_image(input_path, output_path, size, maintain_aspect).
CallResize ==
    /\ pc = "call"
    /\ Call(arg)
    /\ pc' = "returned"
    /\ UNCHANGED <<dirExists, removesCreated, tieUp, outFail, idx, success_count,
                   exit_code, run, fsStart, prev>>

NextResize == CallResize

SpecResize == InitResize /\ [][NextResize]_vars

-----------------------------------------------------------------------------
(* Properties *)

\* Number of calls of the sequence c that returned True.
RECURSIVE NumTrue(_)
NumTrue(c) ==
    IF c = <<>> THEN 0
    ELSE NumTrue(SubSeq(c, 1, Len(c) - 1)) + (IF c[Len(c)].ret THEN 1 ELSE 0)

SourceExistedAtStart == fsStart[source_image].kind # "absent"

\* file is a decodable PNG of the target size of the entry named filename.
ValidOutput(file, filename) ==
    /\ file.kind = "image"
    /\ file.w = SizeOf(filename)
    /\ file.h = SizeOf(filename)

\* The run made all four calls and exactly the call for filename failed.
OnlyFailed(filename) ==
    /\ pc = "done"
    /\ Len(calls) = Len(ICON_SIZES)
    /\ \A k \in 1..Len(calls) : calls[k].ret <=> calls[k].filename # filename

\* C1: a finished run has exit status 0 if and only if the source image
\* existed when it started and all four resize_image calls returned True;
\* in every other case the exit status is 1.
C1_ExitStatus ==
    pc = "done" =>
        /\ exit_code \in {0, 1}
        /\ (exit_code = 0) <=>
              /\ SourceExistedAtStart
              /\ Len(calls) = 4
              /\ \A k \in 1..Len(calls) : calls[k].ret

C1_Witness ==
    /\ pc = "done"
    /\ exit_code = 0
    /\ NumTrue(calls) = 4

\* C2: when the source image does not exist at the start of a run, the
\* first step of the run ends it with exit status 1: no resize_image call
\* has been or is made, the directory is not created and no file changes.
C2_MissingSourceFailsFast ==
    [][ (pc = "start" /\ fs[source_image].kind = "absent") =>
            /\ pc' = "done"
            /\ exit_code' = 1
            /\ calls = <<>> /\ calls' = <<>>
            /\ dirExists' = dirExists
            /\ fs' = fs ]_vars

C2_Witness ==
    /\ pc = "done"
    /\ ~SourceExistedAtStart
    /\ ~dirExists
    /\ exit_code = 1

\* C3 as stated: when exactly one of the four calls failed, the exit status
\* is 1, exactly 3 of the 4 output files are valid target-size PNGs and the
\* failed entry's file is not one of them.
C3_ExactlyThreeValid ==
    \A f \in OutputPaths :
        OnlyFailed(f) =>
            /\ exit_code = 1
            /\ Cardinality({g \in OutputPaths : ValidOutput(fs[g], g)}) = 3
            /\ ~ValidOutput(fs[f], f)

\* C3 as amended: when exactly one of the four calls failed, the exit status
\* is 1 and the other three output files are valid target-size PNGs; the
\* failed entry's file is valid afterwards only if a valid file was at its
\* path before the run, and otherwise exactly 3 of the 4 files are valid.
C3_PartialFailure ==
    \A f \in OutputPaths :
        OnlyFailed(f) =>
            /\ exit_code = 1
            /\ \A g \in OutputPaths \ {f} : ValidOutput(fs[g], g)
            /\ ValidOutput(fs[f], f) => ValidOutput(fsStart[f], f)
            /\ ~ValidOutput(fsStart[f], f) =>
                  Cardinality({g \in OutputPaths : ValidOutput(fs[g], g)}) = 3

C3_Witness ==
    /\ OnlyFailed("splash-icon.png")
    /\ fsStart["splash-icon.png"].kind = "absent"
    /\ Cardinality({g \in OutputPaths : ValidOutput(fs[g], g)}) = 3

\* The calls a run makes, in order: filename, size, maintain_aspect.
ExpectedCalls ==
    << <<"icon.png", 1024, TRUE>>, <<"adaptive-icon.png", 1024, TRUE>>,
       <<"splash-icon.png", 1242, FALSE>>, <<"favicon.png", 48, FALSE>> >>

\* C4: the calls made so far are always the first calls of the fixed
\* sequence icon.png (1024, aspect kept), adaptive-icon.png (1024, aspect
\* kept), splash-icon.png (1242, stretched), favicon.png (48, stretched),
\* whatever the earlier calls returned; the loop position is the number of
\* calls made; and a run that found its source ends only after four calls.
C4_FixedCallOrder ==
    /\ Len(calls) <= 4
    /\ \A k \in 1..Len(calls) :
          <<calls[k].filename, calls[k].size, calls[k].maintain_aspect>>
              = ExpectedCalls[k]
    /\ pc = "loop" => Len(calls) = idx - 1
    /\ (pc = "done" /\ SourceExistedAtStart) => Len(calls) = 4

C4_Witness ==
    /\ pc = "done"
    /\ Len(calls) = 4
    /\ ~calls[1].ret
    /\ calls[2].ret
    /\ ~calls[3].ret
    /\ calls[4].ret

\* Whether the step named step is executed by the call with arguments a on
\* a decodable source of the given mode.
StepRuns(step, mode, a) ==
    CASE step = "open" -> TRUE
      [] step = "convert" -> mode # "RGBA"
      [] step \in {"thumbnail", "new", "paste"} -> a.maintain_aspect
      [] step = "resize" -> ~a.maintain_aspect
      [] step \in {"save_open", "save_write"} -> TRUE
      [] OTHER -> FALSE

\* An error occurs in the call: the source cannot be decoded, or the step
\* that is set to fail is executed.
ErrorOccurs ==
    \/ fsStart[source_image].kind # "image"
    \/ StepRuns(arg.fail, fsStart[source_image].mode, arg)

\* C5: resize_image lets no error escape: it returns False when an error
\* occurs at any of its steps and True otherwise, and when it returns True
\* the output path holds the newly written picture.
C5_AlwaysReturnsBoolean ==
    pc = "returned" =>
        /\ ~res.raised
        /\ res.ret \in BOOLEAN
        /\ res.ret <=> ~ErrorOccurs
        /\ res.ret => /\ fs[arg.output_path].kind = "image"
                      /\ fs[arg.output_path].pic = fsStart[source_image].pic
                      /\ fs[arg.output_path].mode = "RGBA"

C5_Witness ==
    /\ pc = "returned"
    /\ arg.fail = "paste"
    /\ arg.maintain_aspect
    /\ fsStart[source_image].kind = "image"
    /\ ~res.ret

\* C6: the file written by a successful call is size x size pixels, for
\* every source width and height and for both values of maintain_aspect.
C6_OutputIsSquareTargetSize ==
    (pc = "returned" /\ res.ret) =>
        /\ fs[arg.output_path].w = arg.size
        /\ fs[arg.output_path].h = arg.size

C6_Witness ==
    /\ pc = "returned"
    /\ res.ret
    /\ ~arg.maintain_aspect
    /\ fsStart[source_image].w < arg.size
    /\ fsStart[source_image].h > arg.size
    /\ fs[arg.output_path].w = arg.size

\* C7: with maintain_aspect, a W x H source and target S give content
\* w x h with 1 <= w <= min(S, W) and 1 <= h <= min(S, H), max(w, h) = S
\* when W > S or H > S, and w:h within one pixel of W:H (w is less than one
\* pixel from h*W/H, or h less than one pixel from w*H/W); the content is
\* pasted at ((S - w) div 2, (S - h) div 2), inside the canvas, the far
\* margin exceeding the near one by at most 1.  2000 x 1000 at S = 1024
\* gives 1024 x 512 at (0, 256).
C7_AspectFit ==
    (pc = "returned" /\ res.ret /\ arg.maintain_aspect) =>
        LET W == fsStart[source_image].w
            H == fsStart[source_image].h
            S == arg.size
            w == res.content.w
            h == res.content.h
            out == fs[arg.output_path]
        IN  /\ w >= 1 /\ h >= 1
            /\ w <= S /\ h <= S /\ w <= W /\ h <= H
            /\ (W > S \/ H > S) => Max(w, h) = S
            /\ Abs(w * H - h * W) < H \/ Abs(h * W - w * H) < W
            /\ out.cw = w /\ out.ch = h
            /\ out.px = (S - w) \div 2 /\ out.py = (S - h) \div 2
            /\ out.px >= 0 /\ out.py >= 0
            /\ out.px + w <= S /\ out.py + h <= S
            /\ (S - w - out.px) - out.px \in {0, 1}
            /\ (S - h - out.py) - out.py \in {0, 1}
            /\ (W = 2000 /\ H = 1000 /\ S = 1024) =>
                  (w = 1024 /\ h = 512 /\ out.px = 0 /\ out.py = 256)

C7_Witness ==
    /\ pc = "returned"
    /\ res.ret
    /\ arg.maintain_aspect
    /\ fsStart[source_image].w = 2000
    /\ fsStart[source_image].h = 1000
    /\ arg.size = 1024
    /\ fs[arg.output_path].py = 256

\* C8: a run that follows another on the same source and the same failure
\* conditions ends with the same files, contents included, the same calls
\* succeeding, the same success count and the same exit status as the run
\* before it; a call that succeeds replaces whatever file the earlier run
\* left at its path.
C8_Idempotent ==
    (run >= 2 /\ pc = "done") =>
        /\ fs = prev.fs
        /\ calls = prev.calls
        /\ success_count = prev.success_count
        /\ exit_code = prev.exit_code
        /\ \A k \in 1..Len(calls) :
              calls[k].ret => fs[calls[k].filename].pic = fs[source_image].pic

C8_Witness ==
    /\ run = 2
    /\ pc = "done"
    /\ success_count = 3
    /\ \E f \in OutputPaths : fsStart[f].pic = "logo"

\* The success counter agrees with the calls made so far.
CounterMatchesCalls ==
    /\ success_count = NumTrue(calls)
    /\ 0 <= success_count
    /\ success_count <= Len(calls)
    /\ Len(calls) <= 4

\* C9: the success counter always equals the number of calls of the run
\* that returned True, so it lies between 0 and the number of calls made,
\* which is at most 4; within a run each step leaves it unchanged or adds
\* exactly 1, adding 1 exactly when a call returns True.
C9_SuccessCounter ==
    /\ []CounterMatchesCalls
    /\ [][ run' = run =>
             /\ success_count' \in {success_count, success_count + 1}
             /\ (success_count' = success_count + 1) <=>
                   (Len(calls') = Len(calls) + 1 /\ res'.ret) ]_vars

C9_Witness ==
    /\ pc = "done"
    /\ Len(calls) = 4
    /\ success_count = 2

\* C10: the bitmap decoded from the source is the same after the call as
\* when it was decoded, for every pixel format of the source; no output
\* path is the source path and the source file is unchanged.
C10_SourceReadOnly ==
    pc = "returned" =>
        /\ res.decoded = res.decoded0
        /\ source_image \notin OutputPaths
        /\ fs[source_image] = fsStart[source_image]

=============================================================================
